---------------------------- MODULE Spec2Model ----------------------------
(***************************************************************************)
(* TreeForge, generate_tree.py: a directory tree is walked depth first and *)
(* written as a nested JSON array into the scanned root.                   *)
(*                                                                         *)
(* Strings are sequences of code points, so that lower(), suffix, the sort *)
(* key and as_posix() are computed and not assumed.  A filesystem is a     *)
(* function from absolute paths (sequences of names, <<>> being "/") to    *)
(* nodes.                                                                  *)
(***************************************************************************)
EXTENDS Integers, Sequences, FiniteSets, TLC

----------------------------------------------------------------------------
(* Bounds of the model.                                                    *)

\* Nodes below the scan root in an initial filesystem.
MaxNodes == 3
\* Nesting of walk_dir calls the platform allows (the interpreter's recursion
\* limit, the operating system's limit on path resolution); the program has none.
MaxDepth == 5

----------------------------------------------------------------------------
(* Names used in the filesystems, as code points.                          *)

N_r        == <<114>>                                        \* "r", the scan root
N_f        == <<102>>                                        \* "f", a regular file beside it
N_nope     == <<110, 111, 112, 101>>                         \* "nope", absent
N_a        == <<97>>                                         \* "a"
N_B        == <<66>>                                         \* "B"
N_Atxt     == <<65, 46, 116, 120, 116>>                      \* "A.txt"
N_atxt     == <<97, 46, 116, 120, 116>>                      \* "a.txt"
N_mpyc     == <<109, 46, 112, 121, 99>>                      \* "m.pyc"
N_l        == <<108>>                                        \* "l"
N_pycache  == <<95, 95, 112, 121, 99, 97, 99, 104, 101, 95, 95>>   \* "__pycache__"
N_DS_Store == <<46, 68, 83, 95, 83, 116, 111, 114, 101>>     \* ".DS_Store"
N_output   == <<112, 114, 111, 106, 101, 99, 116, 95, 115, 116, 114, 117, 99,
                116, 117, 114, 101, 46, 106, 115, 111, 110>> \* "project_structure.json"
S_pyc      == <<46, 112, 121, 99>>                           \* ".pyc"
S_dotdot   == <<46, 46>>                                     \* ".."

Slash == 47
Dot == 46

\* The default of walk_dir's ignore parameter.
DefaultIgnore == {N_pycache, N_DS_Store}

----------------------------------------------------------------------------
(* str and pathlib.                                                        *)

\* str.lower() on one code point: 'A'..'Z' become 'a'..'z'.
LowerChar(c) == IF c >= 65 /\ c <= 90 THEN c + 32 ELSE c

\* str.lower().
Lower(s) == [i \in 1..Len(s) |-> LowerChar(s[i])]

\* s < t for strings: lexicographic on code points.
RECURSIVE StrLess(_, _)
StrLess(s, t) ==
    IF t = <<>> THEN FALSE
    ELSE IF s = <<>> THEN TRUE
    ELSE IF Head(s) # Head(t) THEN Head(s) < Head(t)
    ELSE StrLess(Tail(s), Tail(t))

\* str.rfind('.') as a 1-based index, 0 when there is no dot.
RFindDot(s) ==
    LET dots == {i \in 1..Len(s) : s[i] = Dot}
    IN  IF dots = {} THEN 0 ELSE CHOOSE i \in dots : \A j \in dots : j <= i

\* PurePath.suffix: the last dot and what follows it, unless the dot is the
\* first or the last character of the name.
Suffix(name) ==
    LET i == RFindDot(name)
    IN  IF 1 < i /\ i < Len(name) THEN SubSeq(name, i, Len(name)) ELSE <<>>

\* PurePath.as_posix() of a relative path: its parts joined by "/".
RECURSIVE AsPosix(_)
AsPosix(parts) ==
    IF parts = <<>> THEN <<>>
    ELSE IF Len(parts) = 1 THEN parts[1]
    ELSE parts[1] \o <<Slash>> \o AsPosix(Tail(parts))

\* The parts of a POSIX path string: str.split("/").
RECURSIVE SplitPosix(_, _)
SplitPosix(s, cur) ==
    IF s = <<>> THEN <<cur>>
    ELSE IF Head(s) = Slash THEN <<cur>> \o SplitPosix(Tail(s), <<>>)
    ELSE SplitPosix(Tail(s), Append(cur, Head(s)))

IsPrefix(p, q) == Len(p) <= Len(q) /\ SubSeq(q, 1, Len(p)) = p

----------------------------------------------------------------------------
(* The filesystem.                                                         *)

RootDir == <<N_r>>

Node(kind, target) == [kind |-> kind, target |-> target]
DirNode  == Node("dir", <<>>)
FileNode == Node("file", <<>>)
FifoNode == Node("fifo", <<>>)

\* What a name can be in an initial filesystem.  A link's target is a resolved
\* absolute path: the scan root (an ancestor of every node) or r/a, which
\* exists or not.
NodesNamed(n) ==
    IF n \in {N_a, N_B, N_pycache} THEN {DirNode}
    ELSE IF n = N_mpyc THEN {FileNode, DirNode}
    ELSE IF n = N_l THEN {FifoNode, Node("link", RootDir), Node("link", <<N_r, N_a>>)}
    ELSE {FileNode}

ChildNames == {N_a, N_B, N_Atxt, N_atxt, N_mpyc, N_l, N_pycache, N_DS_Store}

\* The filesystem outside the scan root: the root directory and a regular file.
BaseFs == (RootDir :> DirNode) @@ (<<N_f>> :> FileNode)

\* The nodes a filesystem can hold below a directory, by name.
NameNodes == UNION { { <<n, nd>> : nd \in NodesNamed(n) } : n \in ChildNames }

\* The physical directories of fs at or below the scan root.
DirsOf(fs) == { p \in DOMAIN fs : IsPrefix(RootDir, p) /\ fs[p].kind = "dir" }

\* fs with one more node in one of its directories.
Extend(fs) ==
    { fs @@ (Append(x[1], x[2][1]) :> x[2][2]) :
        x \in { y \in DirsOf(fs) \X NameNodes : Append(y[1], y[2][1]) \notin DOMAIN fs } }

\* Filesystems with at most k nodes below the scan root.
RECURSIVE FsUpTo(_)
FsUpTo(k) ==
    IF k = 0 THEN {BaseFs}
    ELSE LET smaller == FsUpTo(k - 1)
         IN  smaller \cup UNION { Extend(fs) : fs \in smaller }

\* No node: what a path that does not resolve resolves to.
NoPath == << <<0>> >>

\* os.stat's path resolution: the physical path a path reaches with every
\* symbolic link on it followed, NoPath when a component is missing, is a
\* dangling link, or lies below something that is no directory.
RECURSIVE ResolveFrom(_, _, _)
ResolveFrom(fs, cur, rest) ==
    IF rest = <<>> THEN cur
    ELSE IF cur # <<>> /\ fs[cur].kind # "dir" THEN NoPath
    ELSE LET nxt == Append(cur, Head(rest))
         IN  IF nxt \notin DOMAIN fs THEN NoPath
             ELSE IF fs[nxt].kind = "link"
                  THEN IF fs[nxt].target \in DOMAIN fs
                       THEN ResolveFrom(fs, fs[nxt].target, Tail(rest))
                       ELSE NoPath
                  ELSE ResolveFrom(fs, nxt, Tail(rest))

Resolve(fs, p) == ResolveFrom(fs, <<>>, p)

\* is_dir() as it would be with symbolic links not followed: of the node itself.
IsDir_NoFollow(fs, p) ==
    /\ p # <<>>
    /\ ResolveFrom(fs, <<>>, SubSeq(p, 1, Len(p) - 1)) # NoPath
    /\ Append(ResolveFrom(fs, <<>>, SubSeq(p, 1, Len(p) - 1)), p[Len(p)]) \in DOMAIN fs
    /\ fs[Append(ResolveFrom(fs, <<>>, SubSeq(p, 1, Len(p) - 1)), p[Len(p)])].kind = "dir"

\* Path.exists(), Path.is_dir(), Path.is_file(): of the resolved node.
Exists(fs, p) == Resolve(fs, p) # NoPath
IsDir(fs, p)  == Exists(fs, p) /\ fs[Resolve(fs, p)].kind = "dir"
IsFile(fs, p) == Exists(fs, p) /\ fs[Resolve(fs, p)].kind = "file"

\* Path.iterdir(): the names in a directory, links not followed.
IterDir(fs, p) == { n \in ChildNames \cup {N_output} : Append(Resolve(fs, p), n) \in DOMAIN fs }

\* The orders a directory listing can come in.
Listings(S) ==
    { o \in [1..Cardinality(S) -> S] : \A i, j \in 1..Cardinality(S) : o[i] = o[j] => i = j }

\* PurePath.relative_to(): the parts of child below root.
RelativeTo(child, root) == SubSeq(child, Len(root) + 1, Len(child))

----------------------------------------------------------------------------
(* walk_dir's pieces.                                                      *)

\* An ignore argument: None, or a set of names.
NoneArg == [none |-> TRUE, names |-> {}]
SetArg(S) == [none |-> FALSE, names |-> S]

\* The ignore argument as it would be with the default left out.
IgnoreOrDefault_NoDefault(arg) == arg.names

\* ignore = ignore or {"__pycache__", ".DS_Store"}: None and the empty set are
\* both false.
IgnoreOrDefault(arg) ==
    IF arg.none \/ arg.names = {} THEN DefaultIgnore ELSE arg.names

\* The sort key as it would be without lower(): (not p.is_dir(), p.name).
SortKey_CaseSensitive(fs, dir, n) == [file |-> ~IsDir(fs, Append(dir, n)), name |-> n]

\* The sort key (not p.is_dir(), p.name.lower()) of the child named n of dir.
SortKey(fs, dir, n) == [file |-> ~IsDir(fs, Append(dir, n)), name |-> Lower(n)]

\* k1 <= k2 on keys: tuples compare by their first components, then the second.
KeyLeq(k1, k2) ==
    IF k1.file # k2.file THEN k2.file
    ELSE ~StrLess(k2.name, k1.name)

\* x put into the sorted t behind everything that is not greater.
InsertSorted(fs, dir, t, x) ==
    LET k == Cardinality({ i \in 1..Len(t) : KeyLeq(SortKey(fs, dir, t[i]), SortKey(fs, dir, x)) })
    IN  SubSeq(t, 1, k) \o <<x>> \o SubSeq(t, k + 1, Len(t))

\* sorted(listing, key=...): ascending by key and stable, the children of
\* equal keys staying in the order the listing has them.
RECURSIVE Sorted(_, _, _)
Sorted(fs, dir, listing) ==
    IF listing = <<>> THEN <<>>
    ELSE InsertSorted(fs, dir, Sorted(fs, dir, SubSeq(listing, 1, Len(listing) - 1)),
                      listing[Len(listing)])

\* rel_path as it would be relative to the directory being listed: the name.
RelPath_FromListedDir(child, root) == AsPosix(<<child[Len(child)]>>)

\* rel_path = child.relative_to(root_path).as_posix()
RelPath(child, root) == AsPosix(RelativeTo(child, root))

\* A directory Entry as it would be without the recursive call.
DirEntry_NoRecursion(rel, children) == [path |-> rel, type |-> "dir", children |-> <<>>]

DirEntry(rel, children) == [path |-> rel, type |-> "dir", children |-> children]
FileEntry(rel, name) == [path |-> rel, type |-> "file", extension |-> Suffix(name)]

\* A call of walk_dir(path, ignore) that has not listed its directory yet.
Frame(path, arg) ==
    [path |-> path, arg |-> arg, ignore |-> {}, listed |-> FALSE, todo |-> <<>>, items |-> <<>>]

\* The keys and values of the dicts, as code points.
K_path      == <<112, 97, 116, 104>>                              \* "path"
K_type      == <<116, 121, 112, 101>>                             \* "type"
K_children  == <<99, 104, 105, 108, 100, 114, 101, 110>>          \* "children"
K_extension == <<101, 120, 116, 101, 110, 115, 105, 111, 110>>    \* "extension"
V_dir       == <<100, 105, 114>>                                  \* "dir"
V_file      == <<102, 105, 108, 101>>                             \* "file"

\* json.dumps of a string (the names here need no escapes), and of a key with
\* its value.
JsonString(str) == <<34>> \o str \o <<34>>
JsonMember(key, value) == JsonString(key) \o <<58, 32>> \o value

\* json.dump(tree): the text of the document, the keys of each dict in the
\* order the dict was built with, without the line breaks and the indentation
\* indent=2 adds.
RECURSIVE JsonItems(_)
RECURSIVE Serialize(_)
JsonItems(entries) ==
    IF entries = <<>> THEN <<>>
    ELSE LET e == Head(entries)
         IN  <<123>>
             \o JsonMember(K_path, JsonString(e.path)) \o <<44, 32>>
             \o (IF e.type = "dir"
                 THEN JsonMember(K_type, JsonString(V_dir)) \o <<44, 32>>
                      \o JsonMember(K_children, Serialize(e.children))
                 ELSE JsonMember(K_type, JsonString(V_file)) \o <<44, 32>>
                      \o JsonMember(K_extension, JsonString(e.extension)))
             \o <<125>>
             \o (IF Tail(entries) = <<>> THEN <<>> ELSE <<44, 32>>)
             \o JsonItems(Tail(entries))
Serialize(entries) == <<91>> \o JsonItems(entries) \o <<93>>

----------------------------------------------------------------------------
(* The program.                                                            *)

VARIABLES
    fs,          \* the filesystem
    startFs,     \* the filesystem as this invocation found it
    argRoot,     \* args.root, as an absolute path
    ignoreArg,   \* the ignore argument of the outermost walk_dir call
    pc,          \* where the invocation is
    root_path,   \* the global the walk reads
    stack,       \* the walk_dir calls in progress, innermost last
    listed,      \* the directories this invocation listed, in order: the path
                 \* walk_dir was given and the directory it resolves to
    tree,        \* what the outermost walk_dir returned
    output,      \* the document this invocation wrote
    prevOutput,  \* the document the invocation before wrote
    printed,     \* whether this invocation printed its success message
    err,         \* the exception that ended the invocation
    steps        \* steps this invocation has taken

vars == <<fs, startFs, argRoot, ignoreArg, pc, root_path, stack, listed, tree, output,
          prevOutput, printed, err, steps>>

\* No document: not even the "[]" of an empty tree.
NoDocument == <<>>

Top == stack[Len(stack)]
Child == Append(Top.path, Head(Top.todo))
SetTop(f) == [stack EXCEPT ![Len(stack)] = f]

\* The filesystems an invocation can start on, and the roots it can be given:
\* the directory r, a path that does not exist, a regular file.
InitFs == FsUpTo(MaxNodes)
ArgRoots == {RootDir, <<N_nope>>, <<N_f>>}

InitWith(args) ==
    /\ fs \in InitFs
    /\ startFs = fs
    /\ argRoot \in ArgRoots
    /\ ignoreArg \in args
    /\ pc = "main"
    /\ root_path = <<>>
    /\ stack = <<>>
    /\ listed = <<>>
    /\ tree = <<>>
    /\ output = NoDocument
    /\ prevOutput = NoDocument
    /\ printed = FALSE
    /\ err = "none"
    /\ steps = 0

\* The program: __main__ calls walk_dir(root_path), with no ignore argument.
Init == InitWith({NoneArg})

\* walk_dir as a function others call: with any ignore argument.
InitWalk == InitWith({NoneArg, SetArg({}), SetArg({N_a}), SetArg({N_Atxt, N_pycache})})

\* Path(args.root).resolve(): absolute, links followed; a path that does not
\* exist stays as it is.
ResolveArg(f, p) == IF Exists(f, p) THEN Resolve(f, p) ELSE p

\* The exception __main__ raises for a root that is no directory.
InvalidRootError == "ValueError"

\* The check as it would be with exists() for is_dir().
RootIsValid_Exists(f, p) == Exists(f, p)

\* root_path.is_dir(), the check __main__ makes before it walks.
RootIsValid(f, p) == IsDir(f, p)

\* __main__: resolve the root, check that it is a directory, call walk_dir.
Validate ==
    /\ pc = "main"
    /\ steps' = steps + 1
    /\ root_path' = ResolveArg(fs, argRoot)
    /\ IF RootIsValid(fs, root_path')
       THEN /\ pc' = "walk"
            /\ stack' = <<Frame(root_path', ignoreArg)>>
            /\ err' = err
       ELSE /\ pc' = "failed"
            /\ err' = InvalidRootError
            /\ stack' = stack
    /\ UNCHANGED <<fs, startFs, argRoot, ignoreArg, listed, tree, output, prevOutput, printed>>

\* walk_dir's entry: the ignore default, items = [], and the sorted listing
\* the for loop runs over.
List ==
    /\ pc = "walk"
    /\ steps' = steps + 1
    /\ ~Top.listed
    /\ \E order \in Listings(IterDir(fs, Top.path)) :
          stack' = SetTop([Top EXCEPT !.ignore = IgnoreOrDefault(Top.arg),
                                      !.listed = TRUE,
                                      !.todo = Sorted(fs, Top.path, order)])
    /\ listed' = Append(listed, [path |-> Top.path, node |-> Resolve(fs, Top.path)])
    /\ UNCHANGED <<fs, startFs, argRoot, ignoreArg, pc, root_path, tree, output, prevOutput,
                   printed, err>>

\* if child.name in ignore: continue
SkipIgnored ==
    /\ pc = "walk"
    /\ steps' = steps + 1
    /\ Top.listed /\ Top.todo # <<>>
    /\ Head(Top.todo) \in Top.ignore
    /\ stack' = SetTop([Top EXCEPT !.todo = Tail(@)])
    /\ UNCHANGED <<fs, startFs, argRoot, ignoreArg, pc, root_path, listed, tree, output,
                   prevOutput, printed, err>>

\* if child.is_dir(): ... walk_dir(child, ignore): the call.  Nothing in the
\* program limits the nesting; the platform does.
Descend ==
    /\ pc = "walk"
    /\ steps' = steps + 1
    /\ Top.listed /\ Top.todo # <<>>
    /\ Head(Top.todo) \notin Top.ignore
    /\ IsDir(fs, Child)
    /\ IF Len(stack) < MaxDepth
       THEN /\ stack' = Append(stack, Frame(Child, SetArg(Top.ignore)))
            /\ UNCHANGED <<pc, err>>
       ELSE /\ pc' = "failed"
            /\ err' = "RecursionError"
            /\ stack' = stack
    /\ UNCHANGED <<fs, startFs, argRoot, ignoreArg, root_path, listed, tree, output, prevOutput,
                   printed>>

\* else: if child.suffix == ".pyc": continue
SkipPyc ==
    /\ pc = "walk"
    /\ steps' = steps + 1
    /\ Top.listed /\ Top.todo # <<>>
    /\ Head(Top.todo) \notin Top.ignore
    /\ ~IsDir(fs, Child)
    /\ Suffix(Head(Top.todo)) = S_pyc
    /\ stack' = SetTop([Top EXCEPT !.todo = Tail(@)])
    /\ UNCHANGED <<fs, startFs, argRoot, ignoreArg, pc, root_path, listed, tree, output,
                   prevOutput, printed, err>>

\* else: items.append({"path", "type": "file", "extension"})
EmitFile ==
    /\ pc = "walk"
    /\ steps' = steps + 1
    /\ Top.listed /\ Top.todo # <<>>
    /\ Head(Top.todo) \notin Top.ignore
    /\ ~IsDir(fs, Child)
    /\ Suffix(Head(Top.todo)) # S_pyc
    /\ stack' = SetTop([Top EXCEPT
                          !.items = Append(@, FileEntry(RelPath(Child, root_path), Head(Top.todo))),
                          !.todo = Tail(@)])
    /\ UNCHANGED <<fs, startFs, argRoot, ignoreArg, pc, root_path, listed, tree, output,
                   prevOutput, printed, err>>

\* return items: into the caller's items.append({"path", "type": "dir",
\* "children"}), or into __main__'s tree.
Return ==
    /\ pc = "walk"
    /\ steps' = steps + 1
    /\ Top.listed /\ Top.todo = <<>>
    /\ IF Len(stack) > 1
       THEN LET caller == stack[Len(stack) - 1]
            IN  /\ stack' = [SubSeq(stack, 1, Len(stack) - 1) EXCEPT ![Len(stack) - 1] =
                               [caller EXCEPT
                                  !.items = Append(@, DirEntry(RelPath(Top.path, root_path), Top.items)),
                                  !.todo = Tail(@)]]
                /\ UNCHANGED <<pc, tree>>
       ELSE /\ stack' = <<>>
            /\ tree' = Top.items
            /\ pc' = "write"
    /\ UNCHANGED <<fs, startFs, argRoot, ignoreArg, root_path, listed, output, prevOutput,
                   printed, err>>

\* output_file = root_path / "project_structure.json"; json.dump(tree, f)
Write ==
    /\ pc = "write"
    /\ steps' = steps + 1
    /\ fs' = (Append(root_path, N_output) :> FileNode) @@ fs
    /\ output' = Serialize(tree)
    /\ pc' = "print"
    /\ UNCHANGED <<startFs, argRoot, ignoreArg, root_path, stack, listed, tree, prevOutput,
                   printed, err>>

\* print("Directory tree JSON written to: ...")
PrintMessage ==
    /\ pc = "print"
    /\ steps' = steps + 1
    /\ printed' = TRUE
    /\ pc' = "done"
    /\ UNCHANGED <<fs, startFs, argRoot, ignoreArg, root_path, stack, listed, tree, output,
                   prevOutput, err>>

\* The program is run a second time, with the same arguments, on what the
\* first invocation left.  (A third would find what the second found.)
Rerun ==
    /\ pc = "done"
    /\ steps' = 0
    /\ prevOutput = NoDocument
    /\ pc' = "main"
    /\ prevOutput' = output
    /\ output' = NoDocument
    /\ printed' = FALSE
    /\ root_path' = <<>>
    /\ listed' = <<>>
    /\ tree' = <<>>
    /\ startFs' = fs
    /\ UNCHANGED <<fs, argRoot, ignoreArg, stack, err>>

Next ==
    \/ Validate
    \/ List
    \/ SkipIgnored
    \/ Descend
    \/ SkipPyc
    \/ EmitFile
    \/ Return
    \/ Write
    \/ PrintMessage
    \/ Rerun

Spec == Init /\ [][Next]_vars

SpecWalk == InitWalk /\ [][Next]_vars

----------------------------------------------------------------------------
(* What the properties speak of.                                           *)

\* The parts of an Entry's path, and the last of them: the child's bare name.
PartsOf(e) == SplitPosix(e.path, <<>>)
NameOf(e) == PartsOf(e)[Len(PartsOf(e))]

\* The node an Entry's path names, resolved against the scan root.
Target(e) == root_path \o PartsOf(e)

\* Every Entry of a sequence, at every depth.
RECURSIVE AllEntries(_)
AllEntries(entries) ==
    IF entries = <<>> THEN <<>>
    ELSE LET e == Head(entries)
         IN  <<e>> \o (IF e.type = "dir" THEN AllEntries(e.children) ELSE <<>>)
                   \o AllEntries(Tail(entries))

\* Every children sequence below and including a sequence.
RECURSIVE ChildSeqs(_)
ChildSeqs(entries) ==
    {entries} \cup UNION { ChildSeqs(entries[i].children) :
                             i \in { j \in 1..Len(entries) : entries[j].type = "dir" } }

\* The sequences built so far: the tree, and the items of the calls in progress.
BuiltSeqs == ChildSeqs(tree) \cup UNION { ChildSeqs(stack[i].items) : i \in 1..Len(stack) }
BuiltEntries == UNION { { s[i] : i \in 1..Len(s) } : s \in BuiltSeqs }

Distinct(seq) == \A i, j \in 1..Len(seq) : seq[i] = seq[j] => i = j

\* The walk has returned to __main__ and nothing is written yet.
Walked == pc = "write"

\* A name that ends in ".pyc" behind at least one more character.
IsPycName(n) == Len(n) > 4 /\ SubSeq(n, Len(n) - 3, Len(n)) = S_pyc

\* The children of dir an Entry is due for: not ignored, and no .pyc file.
Wanted(f, dir, ig) ==
    { n \in IterDir(f, dir) : n \notin ig /\ ~(IsPycName(n) /\ ~IsDir(f, Append(dir, n))) }

\* entries holds one Entry per wanted child of dir, of the child's kind, and so
\* does every directory Entry for its directory.
RECURSIVE Matches(_, _, _, _)
Matches(f, dir, ig, entries) ==
    /\ Len(entries) = Cardinality(Wanted(f, dir, ig))
    /\ { NameOf(entries[i]) : i \in 1..Len(entries) } = Wanted(f, dir, ig)
    /\ \A i \in 1..Len(entries) :
          LET e == entries[i]
              child == Append(dir, NameOf(e))
          IN  IF e.type = "dir"
              THEN IsDir(f, child) /\ Matches(f, child, ig, e.children)
              ELSE ~IsDir(f, child)

NoLinks(f) == \A p \in DOMAIN f : f[p].kind # "link"

\* C1: when the scan of a root has returned, the tree holds exactly one Entry
\* per child of the root that is not ignored and is no .pyc file, and so on
\* below every directory Entry; it holds no Entry for the root itself, no path
\* twice and, in a tree of files and directories, no node twice.
C1_ExactlyTheChildren ==
    Walked =>
        /\ Matches(fs, root_path, DefaultIgnore, tree)
        /\ \A i \in 1..Len(AllEntries(tree)) :
              /\ AllEntries(tree)[i].path # <<>>
              /\ Resolve(fs, Target(AllEntries(tree)[i])) # root_path
        /\ Distinct([i \in 1..Len(AllEntries(tree)) |-> AllEntries(tree)[i].path])
        /\ NoLinks(fs) =>
              Distinct([i \in 1..Len(AllEntries(tree)) |-> Resolve(fs, Target(AllEntries(tree)[i]))])

\* A scan that returned a directory Entry with children and left a child out.
C1_Witness ==
    /\ Walked
    /\ \E i \in 1..Len(tree) : tree[i].type = "dir" /\ tree[i].children # <<>>
    /\ Cardinality(IterDir(fs, root_path)) > Len(tree)

\* Directories before files, and each of the two in ascending order of the
\* lowercased names.
Ordered(es) ==
    \A i, j \in 1..Len(es) :
        i < j =>
            /\ es[i].type = "file" => es[j].type = "file"
            /\ es[i].type = es[j].type => ~StrLess(Lower(NameOf(es[j])), Lower(NameOf(es[i])))

\* C3: in every children sequence, at every depth and at the top, the dir
\* Entries precede the file Entries and each group is in ascending order of
\* the lowercased names, also where ignored names and .pyc files were left out.
C3_DirsFirstThenNames == \A es \in BuiltSeqs : Ordered(es)

\* A finished top-level sequence that starts with a directory, ends with a
\* file and lacks a child that was filtered out.
C3_Witness ==
    /\ Walked
    /\ Len(tree) >= 2
    /\ tree[1].type = "dir" /\ tree[Len(tree)].type = "file"
    /\ Cardinality(IterDir(fs, root_path)) > Len(tree)

HasIgnoredPart(path) == \E i \in 1..Len(path) : path[i] \in DefaultIgnore

\* C5: no Entry, at any depth, has __pycache__ or .DS_Store as a part of its
\* path, and no directory with such a part is walked or listed.
C5_IgnoredNamesAbsent ==
    /\ \A e \in BuiltEntries : ~HasIgnoredPart(PartsOf(e))
    /\ \A i \in 1..Len(stack) : ~HasIgnoredPart(stack[i].path)
    /\ \A i \in 1..Len(listed) : ~HasIgnoredPart(listed[i].path)

\* A finished scan of a root with a node inside a directory __pycache__.
C5_Witness ==
    /\ Walked
    /\ \E p \in DOMAIN fs : Len(p) >= 3 /\ p[Len(p) - 1] = N_pycache

\* Each Entry's path is the path of the sequence's directory, "/", and a name
\* (the bare name at the top), and so on below.
RECURSIVE PathsFrom(_, _)
PathsFrom(prefix, entries) ==
    \A i \in 1..Len(entries) :
        LET e == entries[i]
        IN  /\ \E n \in ChildNames \cup {N_output} :
                  e.path = IF prefix = <<>> THEN n ELSE prefix \o <<Slash>> \o n
            /\ e.type = "dir" => PathsFrom(e.path, e.children)

\* C6: a top-level Entry's path is the child's bare name and a nested Entry's
\* path is its parent Entry's path, "/", and the child's bare name; no path is
\* absolute and none has a ".." part.
C6_PathsRelativeToRoot ==
    /\ PathsFrom(<<>>, tree)
    /\ stack # <<>> => PathsFrom(<<>>, stack[1].items)
    /\ \A e \in BuiltEntries :
          /\ e.path # <<>> /\ Head(e.path) # Slash
          /\ \A i \in 1..Len(PartsOf(e)) : PartsOf(e)[i] # S_dotdot

\* A finished scan with an Entry two directories below the root.
C6_Witness ==
    /\ Walked
    /\ \E e \in BuiltEntries : Len(PartsOf(e)) >= 3

\* C2 as claimed: an invocation that follows another, with nothing else
\* touching the tree in between, writes the document the first one wrote.
C2_SecondRunSameDocument ==
    (prevOutput # NoDocument /\ output # NoDocument) => output = prevOutput

\* The supplied root does not exist or is no directory.
InvalidRoot == ~Exists(startFs, argRoot) \/ startFs[Resolve(startFs, argRoot)].kind # "dir"

\* The invocation ended at the check of the root and did nothing else: no
\* walk_dir call, no listing, the filesystem as it was, no document, no message.
StoppedBeforeWalk ==
    /\ pc = "failed"
    /\ stack = <<>> /\ listed = <<>> /\ tree = <<>>
    /\ fs = startFs
    /\ output = NoDocument
    /\ ~printed

\* NotADirectoryError and its subclasses (it has none); ValueError is no OSError.
NotADirectoryErrorClass == {"NotADirectoryError"}

\* C4 as claimed: an invalid root ends the invocation with a
\* NotADirectoryError-class exception before any traversal, with no output.
C4_FailsWithNotADirectoryError ==
    (InvalidRoot /\ pc # "main") => StoppedBeforeWalk /\ err \in NotADirectoryErrorClass

\* C4, amended: an invalid root ends the invocation with a ValueError before
\* any traversal: walk_dir is never called, project_structure.json is neither
\* created nor overwritten and no success message is printed.
C4_FailsWithValueError ==
    (InvalidRoot /\ pc # "main") => StoppedBeforeWalk /\ err = "ValueError"

\* An invocation on a root that exists and is a regular file has failed.
C4_Witness == argRoot = <<N_f>> /\ pc = "failed"

\* C7 as claimed: every Entry's path, resolved against the scan root, reaches
\* an existing directory when its type is dir and an existing file when its
\* type is file.
C7_EntriesResolveToTheirType ==
    Walked => \A e \in BuiltEntries :
                 IF e.type = "dir" THEN IsDir(fs, Target(e)) ELSE IsFile(fs, Target(e))

\* C8 as claimed: the sequence walk_dir's loop runs over is the same whatever
\* order the directory listing comes in.
C8_OrderIndependentOfListing ==
    (pc = "walk" /\ ~Top.listed) =>
        \A o1, o2 \in Listings(IterDir(fs, Top.path)) :
            Sorted(fs, Top.path, o1) = Sorted(fs, Top.path, o2)

\* C9 as claimed: walk_dir leaves out by name exactly the names of the ignore
\* set it was given, the empty set included, and uses the default set only
\* when it was given none.
C9_SuppliedIgnoreSetIsUsed ==
    Walked => Matches(fs, root_path,
                      IF ignoreArg.none THEN DefaultIgnore ELSE ignoreArg.names, tree)

\* A symbolic link the walk reaches that points to a directory it lies in.
LoopLink(f) ==
    \E p \in DOMAIN f :
        /\ f[p].kind = "link"
        /\ f[p].target \in DOMAIN f
        /\ IsPrefix(f[p].target, p)
        /\ IsPrefix(RootDir, f[p].target)
        /\ ~HasIgnoredPart(p)

\* The greatest of a set of numbers.
Greatest(S) == CHOOSE d \in S : \A x \in S : x <= d

\* The directory levels below dir, symbolic links to directories followed.
RECURSIVE DepthBelow(_, _, _)
DepthBelow(f, dir, fuel) ==
    IF fuel = 0 \/ \A n \in IterDir(f, dir) : ~IsDir(f, Append(dir, n)) THEN 0
    ELSE 1 + Greatest({ DepthBelow(f, Append(dir, n), fuel - 1) :
                          n \in { x \in IterDir(f, dir) : IsDir(f, Append(dir, x)) } })

\* The directory levels below the scan root, links not followed.
PhysicalDepth(f) == Greatest({ Len(p) - Len(RootDir) : p \in DirsOf(f) })

WalkedDirs ==
    {root_path} \cup { Target(e) : e \in { x \in BuiltEntries : x.type = "dir" } }

\* The steps walk_dir(dir, ig) takes from its entry to its return: the
\* listing, one per child that is skipped or emitted, the call and the walk of
\* each directory child, the return.
RECURSIVE WalkCost(_, _, _, _)
RECURSIVE ChildrenCost(_, _, _, _, _)
WalkCost(f, dir, ig, fuel) ==
    IF fuel = 0 THEN 0 ELSE 2 + ChildrenCost(f, dir, ig, IterDir(f, dir), fuel)
ChildrenCost(f, dir, ig, names, fuel) ==
    IF names = {} THEN 0
    ELSE LET n == CHOOSE x \in names : TRUE
         IN  (IF n \notin ig /\ IsDir(f, Append(dir, n))
              THEN 1 + WalkCost(f, Append(dir, n), ig, fuel - 1)
              ELSE 1)
             + ChildrenCost(f, dir, ig, names \ {n}, fuel)

\* The invocation has ended: completed, or failed outright.
Ended == pc = "failed" \/ (pc = "done" /\ prevOutput # NoDocument)

\* A step can be taken: the listing of the innermost call's directory, in one
\* of the orders it can come in, or one of the other steps.
CanStep ==
    \/ /\ pc = "walk" /\ stack # <<>> /\ ~Top.listed
       /\ Listings(IterDir(fs, Top.path)) # {}
    \/ ENABLED (Validate \/ SkipIgnored \/ Descend \/ SkipPyc \/ EmitFile \/ Return
                   \/ Write \/ PrintMessage \/ Rerun)

=============================================================================
